---------------------------- MODULE Spec2Model ----------------------------
(***************************************************************************)
(* Model of src/graph_digitizer.py (class GraphDigitizer): the viewport    *)
(* (pan / zoom), the calibration list and its domain validation, the       *)
(* least-squares fit that installs the affine maps and switches the mode,  *)
(* the data clicks and the CSV export.                                     *)
(*                                                                         *)
(* Numbers.  Python floats are modelled as exact rationals (plus NaN):     *)
(* every +, -, *, / of the source is the exact operation.  The zoom factor *)
(* 1.1 is 11/10, so 25 zoom steps need integers of 26 digits; integers     *)
(* are therefore little-endian sequences of base-10000 limbs.  Equalities  *)
(* established here are equalities of real arithmetic; IEEE doubles agree  *)
(* with them up to rounding.                                               *)
(***************************************************************************)
EXTENDS Integers, Sequences, FiniteSets, TLC

(***************************************************************************)
(* Natural numbers of any size: <<>> is 0, no most-significant zero limb.  *)
(***************************************************************************)
Base == 100 * 100

RECURSIVE BStrip(_)
BStrip(a) ==
    IF a = <<>> THEN <<>>
    ELSE IF a[Len(a)] = 0 THEN BStrip(SubSeq(a, 1, Len(a) - 1))
    ELSE a

RECURSIVE BFromNat(_)
BFromNat(n) ==
    IF n = 0 THEN <<>> ELSE <<n % Base>> \o BFromNat(n \div Base)

BRest(a) == IF a = <<>> THEN <<>> ELSE Tail(a)
BLow(a) == IF a = <<>> THEN 0 ELSE Head(a)

RECURSIVE BAddC(_, _, _)
BAddC(a, b, c) ==
    IF a = <<>> /\ b = <<>> THEN (IF c = 0 THEN <<>> ELSE <<c>>)
    ELSE LET x == BLow(a) + BLow(b) + c
         IN  <<x % Base>> \o BAddC(BRest(a), BRest(b), x \div Base)

BAdd(a, b) == BAddC(a, b, 0)

\* a - b - c for a >= b + c, limb by limb with borrow c
RECURSIVE BSubC(_, _, _)
BSubC(a, b, c) ==
    IF a = <<>> THEN <<>>
    ELSE LET x == BLow(a) - BLow(b) - c
         IN  IF x < 0 THEN <<x + Base>> \o BSubC(BRest(a), BRest(b), 1)
             ELSE <<x>> \o BSubC(BRest(a), BRest(b), 0)

BSub(a, b) == BStrip(BSubC(a, b, 0))

\* -1, 0, 1 as a < b, a = b, a > b; i is the limb compared, from the top
RECURSIVE BCmpAt(_, _, _)
BCmpAt(a, b, i) ==
    IF i = 0 THEN 0
    ELSE IF a[i] < b[i] THEN -1
    ELSE IF a[i] > b[i] THEN 1
    ELSE BCmpAt(a, b, i - 1)

BCmp(a, b) ==
    IF Len(a) < Len(b) THEN -1
    ELSE IF Len(a) > Len(b) THEN 1
    ELSE BCmpAt(a, b, Len(a))

\* a * k + c for 0 <= c <= k < 20 * Base (the products stay below 2^31)
RECURSIVE BMulSmallC(_, _, _)
BMulSmallC(a, k, c) ==
    IF a = <<>> THEN BFromNat(c)
    ELSE LET x == Head(a) * k + c
         IN  <<x % Base>> \o BMulSmallC(Tail(a), k, x \div Base)

BMulSmall(a, k) == IF k = 0 THEN <<>> ELSE BMulSmallC(a, k, 0)

RECURSIVE BMul(_, _)
BMul(a, b) ==
    IF a = <<>> \/ b = <<>> THEN <<>>
    ELSE IF b = <<1>> THEN a
    ELSE IF a = <<1>> THEN b
    ELSE IF Tail(b) = <<>> THEN BMulSmall(a, Head(b))
    ELSE BAdd(BMulSmall(a, Head(b)), <<0>> \o BMul(a, Tail(b)))

\* quotient and remainder of a by 0 < k < 20 * Base, from the top limb i down
RECURSIVE BDivModAt(_, _, _, _, _)
BDivModAt(a, k, i, r, q) ==
    IF i = 0 THEN [q |-> BStrip(q), r |-> r]
    ELSE LET cur == r * Base + a[i]
         IN  BDivModAt(a, k, i - 1, cur % k, <<cur \div k>> \o q)

BDivModSmall(a, k) == BDivModAt(a, k, Len(a), 0, <<>>)

\* a * p^k, multiplying by pc = p^c while k >= c
RECURSIVE BMulPow(_, _, _, _, _)
BMulPow(a, p, pc, c, k) ==
    IF k = 0 THEN a
    ELSE IF k >= c THEN BMulPow(BMulSmall(a, pc), p, pc, c, k - c)
    ELSE BMulPow(BMulSmall(a, p), p, pc, c, k - 1)

\* a * 10^t for a # 0: t \div 4 zero limbs below a, times 10^(t % 4)
BShift10(a, t) == BMulSmall([x \in 1..(t \div 4) |-> 0] \o a, 10 ^ (t % 4))

\* a * 2^i * 5^j * 11^k for a # 0, the common power of ten first
BScale(a, i, j, k) ==
    BMulPow(BMulPow(BMulPow(BShift10(a, IF i < j THEN i ELSE j),
                            2, 131072, 17, IF i < j THEN 0 ELSE i - j),
                    5, 78125, 7, IF i < j THEN j - i ELSE 0),
            11, 161051, 5, k)

\* <<b, k + n>> with a = b * p^n and p not dividing b, for a # 0; divides by
\* pc = p^c while that leaves no remainder, then by p
RECURSIVE BStripPow(_, _, _, _, _)
BStripPow(a, p, pc, c, k) ==
    IF Len(a) = 1
    THEN (IF a[1] % p = 0 THEN BStripPow(<<a[1] \div p>>, p, p, 1, k + 1)
          ELSE <<a, k>>)
    ELSE LET dm == BDivModSmall(a, pc)
         IN  IF dm.r = 0 THEN BStripPow(dm.q, p, pc, c, k + c)
             ELSE IF pc = p THEN <<a, k>>
             ELSE BStripPow(a, p, p, 1, k)

(***************************************************************************)
(* A Python float: NaN, or the rational                                    *)
(*     (-1)^neg * m * 2^e2 * 5^e5 * 11^e11 / q                             *)
(* with m and q coprime to 2, 5 and 11 (m = <<>> for 0).  The form is      *)
(* unique when q = 1, which holds for every viewport and image coordinate: *)
(* the zoom factor is 11/10 and the scale limits are 1/10 and 10.  A fit   *)
(* divides by other numbers; NumEq compares by value.                      *)
(***************************************************************************)
NaN == [nan |-> TRUE, neg |-> FALSE, m |-> <<>>, e2 |-> 0, e5 |-> 0, e11 |-> 0,
        q |-> <<1>>]
Zero == [nan |-> FALSE, neg |-> FALSE, m |-> <<>>, e2 |-> 0, e5 |-> 0, e11 |-> 0,
         q |-> <<1>>]

\* <<b, k2, k5, k11>> with a = b * 2^k2 * 5^k5 * 11^k11 and b coprime to them
StripNext(t, r) == <<r[1]>> \o Tail(t) \o <<r[2]>>
Strip3(a) ==
    LET s2(t) == StripNext(t, BStripPow(t[1], 2, 131072, 17, 0))
        s5(t) == StripNext(t, BStripPow(t[1], 5, 78125, 7, 0))
        s11(t) == StripNext(t, BStripPow(t[1], 11, 161051, 5, 0))
    IN  s11(s5(s2(<<a>>)))

MkStripped(neg, ms, e2, e5, e11, qs) ==
    [nan |-> FALSE, neg |-> neg, m |-> ms[1],
     e2 |-> e2 + ms[2] - qs[2], e5 |-> e5 + ms[3] - qs[3],
     e11 |-> e11 + ms[4] - qs[4], q |-> qs[1]]

Mk(neg, m, e2, e5, e11, q) ==
    IF m = <<>> THEN Zero
    ELSE MkStripped(neg, Strip3(m), e2, e5, e11,
                    IF q = <<1>> THEN <<q, 0, 0, 0>> ELSE Strip3(q))

\* the float n / d of two small integers, d > 0
Rat(n, d) == Mk(n < 0, BFromNat(IF n < 0 THEN -n ELSE n), 0, 0, 0, BFromNat(d))
Num(n) == Rat(n, 1)

IsZero(a) == ~a.nan /\ a.m = <<>>

NNeg(a) == IF a.nan \/ a.m = <<>> THEN a ELSE [a EXCEPT !.neg = ~a.neg]

Lo(i, j) == IF i < j THEN i ELSE j

\* the numerator of |a| over the common denominator of a and b
Aligned(a, b) ==
    BScale(IF a.q = b.q THEN a.m ELSE BMul(a.m, b.q),
           a.e2 - Lo(a.e2, b.e2), a.e5 - Lo(a.e5, b.e5), a.e11 - Lo(a.e11, b.e11))

\* a + b from the aligned numerators x of |a| and y of |b|
NAddAligned(a, b, x, y) ==
    Mk(IF a.neg = b.neg \/ BCmp(x, y) >= 0 THEN a.neg ELSE b.neg,
       IF a.neg = b.neg THEN BAdd(x, y)
       ELSE IF BCmp(x, y) >= 0 THEN BSub(x, y) ELSE BSub(y, x),
       Lo(a.e2, b.e2), Lo(a.e5, b.e5), Lo(a.e11, b.e11),
       IF a.q = b.q THEN a.q ELSE BMul(a.q, b.q))

NAdd(a, b) ==
    IF a.nan \/ b.nan THEN NaN
    ELSE IF a.m = <<>> THEN b
    ELSE IF b.m = <<>> THEN a
    ELSE NAddAligned(a, b, Aligned(a, b), Aligned(b, a))

NSub(a, b) == NAdd(a, NNeg(b))

NMul(a, b) ==
    IF a.nan \/ b.nan THEN NaN
    ELSE IF a.m = <<>> \/ b.m = <<>> THEN Zero
    ELSE [nan |-> FALSE, neg |-> a.neg # b.neg, m |-> BMul(a.m, b.m),
          e2 |-> a.e2 + b.e2, e5 |-> a.e5 + b.e5, e11 |-> a.e11 + b.e11,
          q |-> BMul(a.q, b.q)]

\* a / b for b # 0 (every division of the source has a nonzero divisor)
NDiv(a, b) ==
    IF a.nan \/ b.nan THEN NaN
    ELSE IF a.m = <<>> THEN Zero
    ELSE [nan |-> FALSE, neg |-> a.neg # b.neg, m |-> BMul(a.m, b.q),
          e2 |-> a.e2 - b.e2, e5 |-> a.e5 - b.e5, e11 |-> a.e11 - b.e11,
          q |-> BMul(a.q, b.m)]

\* the sign of a - b: -1, 0 or 1 (a, b not NaN)
NCmp(a, b) ==
    IF a.m = <<>> THEN (IF b.m = <<>> THEN 0 ELSE IF b.neg THEN 1 ELSE -1)
    ELSE IF b.m = <<>> THEN (IF a.neg THEN -1 ELSE 1)
    ELSE IF a.neg /\ ~b.neg THEN -1
    ELSE IF ~a.neg /\ b.neg THEN 1
    ELSE (IF a.neg THEN -1 ELSE 1) * BCmp(Aligned(a, b), Aligned(b, a))

\* Python's ==, <, <= on floats: every comparison with NaN is False
NumEq(a, b) == ~a.nan /\ ~b.nan /\ NCmp(a, b) = 0
NumLt(a, b) == ~a.nan /\ ~b.nan /\ NCmp(a, b) < 0
NumLe(a, b) == ~a.nan /\ ~b.nan /\ NCmp(a, b) <= 0

NMax(a, b) == IF NumLt(a, b) THEN b ELSE a
NMin(a, b) == IF NumLt(b, a) THEN b ELSE a

(***************************************************************************)
(* The session: the fields of a GraphDigitizer object, the last dialog it  *)
(* showed, the exception its last callback left uncaught, the rows it      *)
(* wrote, and the event counters that bound the exploration.               *)
(***************************************************************************)
VARIABLES
    calib_pairs,            \* list of [img |-> <<xi, yi>>, act |-> <<xt, yt>>]
    data_points,            \* list of <<x, y>>
    transform,              \* [x |-> <<slope, intercept>>, y |-> <<slope, intercept>>]
    offset_x, offset_y,     \* pan offset
    scale,                  \* zoom scale
    mode,                   \* "CALIB" | "DATA"
    pan_start,              \* <<>> (None) or the pointer position <<x, y>>
    image_id,               \* "none" or "image"
    x_scale_mode, y_scale_mode,     \* "linear" | "log" | "probability"
    probability_is_percent, \* [x |-> BOOLEAN, y |-> BOOLEAN]
    finish_btn,             \* "disabled" | "normal"
    alive,                  \* FALSE once destroy() was called
    csv_rows,               \* <<"none">> or <<"rows", the rows written>>
    dialog,                 \* the message box the last callback showed
    exc,                    \* the exception the last callback did not catch
    zooms, drags            \* zoom and drag events so far (exploration bounds)

vars == <<calib_pairs, data_points, transform, offset_x, offset_y, scale, mode,
          pan_start, image_id, x_scale_mode, y_scale_mode, probability_is_percent,
          finish_btn, alive, csv_rows, dialog, exc, zooms, drags>>

\* the object as one record, which the methods below read and return
Self ==
    [calib_pairs |-> calib_pairs, data_points |-> data_points,
     transform |-> transform, offset_x |-> offset_x, offset_y |-> offset_y,
     scale |-> scale, mode |-> mode, pan_start |-> pan_start,
     image_id |-> image_id, x_scale_mode |-> x_scale_mode,
     y_scale_mode |-> y_scale_mode,
     probability_is_percent |-> probability_is_percent,
     finish_btn |-> finish_btn, alive |-> alive, csv_rows |-> csv_rows,
     dialog |-> "none", exc |-> "none"]

\* the object after a callback returned t
Becomes(t) ==
    /\ calib_pairs' = t.calib_pairs
    /\ data_points' = t.data_points
    /\ transform' = t.transform
    /\ offset_x' = t.offset_x
    /\ offset_y' = t.offset_y
    /\ scale' = t.scale
    /\ mode' = t.mode
    /\ pan_start' = t.pan_start
    /\ image_id' = t.image_id
    /\ x_scale_mode' = t.x_scale_mode
    /\ y_scale_mode' = t.y_scale_mode
    /\ probability_is_percent' = t.probability_is_percent
    /\ finish_btn' = t.finish_btn
    /\ alive' = t.alive
    /\ csv_rows' = t.csv_rows
    /\ dialog' = t.dialog
    /\ exc' = t.exc

(***************************************************************************)
(* Bounds of the exploration and the events drawn.                         *)
(***************************************************************************)
MaxCalib == 2
MaxData == 2
MaxZoomSteps == 1
MaxDrags == 2
MaxViewSteps == 1

ClickPoints == {<<0, 0>>, <<1, 1>>}
PanPoints == {<<0, 0>>, <<400, 30>>}
PressPoints == {<<400, 30>>}
ZoomCursors == {<<20, 10>>}
ZoomDirs == {"up", "down"}

ScaleModes == {"linear", "log", "probability"}

(***************************************************************************)
(* Viewport                                                                *)
(***************************************************************************)
Factor == Rat(11, 10)
MinScale == Rat(1, 10)
MaxScale == Num(10)

screen_to_image(s, sx, sy) ==
    IF IsZero(s.scale) THEN <<Num(sx), Num(sy)>>
    ELSE <<NDiv(NSub(Num(sx), s.offset_x), s.scale),
           NDiv(NSub(Num(sy), s.offset_y), s.scale)>>

on_middle_press(s, ev) == [s EXCEPT !.pan_start = ev]

\* a drag that does not move the reference point to the pointer
on_middle_drag_keep(s, ev) ==
    IF s.pan_start = <<>> \/ s.image_id = "none" THEN s
    ELSE [s EXCEPT !.offset_x = NAdd(s.offset_x, Num(ev[1] - s.pan_start[1])),
                   !.offset_y = NAdd(s.offset_y, Num(ev[2] - s.pan_start[2]))]

on_middle_drag(s, ev) ==
    IF s.pan_start = <<>> \/ s.image_id = "none" THEN s
    ELSE LET dx == ev[1] - s.pan_start[1]
             dy == ev[2] - s.pan_start[2]
         IN  [s EXCEPT !.offset_x = NAdd(s.offset_x, Num(dx)),
                       !.offset_y = NAdd(s.offset_y, Num(dy)),
                       !.pan_start = ev]

on_middle_release(s) == [s EXCEPT !.pan_start = <<>>]

ZoomDir(dir) == IF dir = "up" THEN Factor ELSE NDiv(Num(1), Factor)

\* a clamp that forgets the lower limit
ClampScale_nomin(v) == NMin(v, MaxScale)

ClampScale(v) == NMax(MinScale, NMin(v, MaxScale))

\* an offset scaled about the origin, not about the cursor
ZoomOffset_origin(c, o, actual_zoom) == NMul(o, actual_zoom)

ZoomOffset(c, o, actual_zoom) == NSub(c, NMul(NSub(c, o), actual_zoom))

\* the assignments of _on_zoom once new_scale and actual_zoom are computed
zoom_to(s, ev, new_scale, actual_zoom) ==
    [s EXCEPT !.scale = new_scale,
              !.offset_x = ZoomOffset(Num(ev[1]), s.offset_x, actual_zoom),
              !.offset_y = ZoomOffset(Num(ev[2]), s.offset_y, actual_zoom)]

zoom_clamped(s, ev, new_scale) == zoom_to(s, ev, new_scale, NDiv(new_scale, s.scale))

on_zoom(s, ev, dir) ==
    IF s.image_id = "none" THEN s
    ELSE zoom_clamped(s, ev, ClampScale(NMul(s.scale, ZoomDir(dir))))

(***************************************************************************)
(* Axis scales.  log10 is exact on the powers of ten, the only positive    *)
(* true values drawn for it; NormalDist.inv_cdf is tabulated to four       *)
(* decimals on the probabilities drawn, and NormalDist.cdf is its inverse  *)
(* there.  A value 10 ** v or cdf(v) that is no float of this model is     *)
(* kept as the term [kind |-> "pow10" or "cdf", v |-> v].                  *)
(***************************************************************************)
ScaleMode(s, axis) == IF axis = "x" THEN s.x_scale_mode ELSE s.y_scale_mode

validate_calibration_value(s, axis, value) ==
    LET scale_mode == ScaleMode(s, axis)
        is_percent == s.probability_is_percent[axis]
        lower == Num(0)
        upper == IF is_percent THEN Num(100) ELSE Num(1)
    IN  IF scale_mode = "log" /\ NumLe(value, Num(0)) THEN "ValueError"
        ELSE IF scale_mode = "probability"
                /\ ~(NumLt(lower, value) /\ NumLt(value, upper)) THEN "ValueError"
        ELSE "ok"

IsPow10(v) ==
    ~v.nan /\ ~v.neg /\ v.m = <<1>> /\ v.q = <<1>> /\ v.e11 = 0 /\ v.e2 = v.e5

IsInteger(v) ==
    ~v.nan /\ v.q = <<1>> /\ v.e2 >= 0 /\ v.e5 >= 0 /\ v.e11 >= 0

Log10(v) ==
    CASE v.nan -> NaN
      [] IsPow10(v) -> Num(v.e2)

ProbitTable ==
    { <<Rat(1, 10000), Rat(-37190, 10000)>>, <<Rat(1, 1000), Rat(-30902, 10000)>>,
      <<Rat(1, 100), Rat(-23263, 10000)>>, <<Rat(1, 10), Rat(-12816, 10000)>> }

probability_forward_transform(p) ==
    CASE p.nan -> NaN
      [] \E e \in ProbitTable : e[1] = p -> (CHOOSE e \in ProbitTable : e[1] = p)[2]

Float(v) == [kind |-> "float", v |-> v]

probability_inverse_transform(value) ==
    IF value.nan THEN Float(NaN)
    ELSE IF \E e \in ProbitTable : NumEq(e[2], value)
    THEN Float((CHOOSE e \in ProbitTable : NumEq(e[2], value))[1])
    ELSE [kind |-> "cdf", v |-> value]

\* 10 ** value raises OverflowError above log10 of the largest double
Pow10Limit == Rat(3082547, 10000)

\* the natural number of at most two limbs
NatOf(b) == IF b = <<>> THEN 0 ELSE IF Len(b) = 1 THEN b[1] ELSE b[1] + Base * b[2]

\* the integer a float holds, for IsInteger(v) and |v| < Base * Base
IntOf(v) ==
    IF v.m = <<>> THEN 0
    ELSE (IF v.neg THEN -1 ELSE 1) * NatOf(BScale(v.m, v.e2, v.e5, v.e11))

\* the float 10^k
TenTo(k) ==
    [nan |-> FALSE, neg |-> FALSE, m |-> <<1>>, e2 |-> k, e5 |-> k, e11 |-> 0,
     q |-> <<1>>]

Pow10(value) ==
    IF value.nan THEN Float(NaN)
    ELSE IF NumLt(Pow10Limit, value) THEN [kind |-> "OverflowError", v |-> value]
    ELSE IF IsInteger(value) THEN Float(TenTo(IntOf(value)))
    ELSE [kind |-> "pow10", v |-> value]

Times100(r) ==
    IF r.kind = "float" THEN Float(NMul(r.v, Num(100)))
    ELSE [kind |-> "cdf100", v |-> r.v]

\* the inverse axis scale applied to value = slope * coord + intercept
inverse_scale(s, axis, value) ==
    IF ScaleMode(s, axis) = "log" THEN Pow10(value)
    ELSE IF ScaleMode(s, axis) = "probability"
    THEN (IF s.probability_is_percent[axis]
          THEN Times100(probability_inverse_transform(value))
          ELSE probability_inverse_transform(value))
    ELSE Float(value)

apply_axis_value(s, axis, coord) ==
    inverse_scale(s, axis,
                  NAdd(NMul(s.transform[axis][1], coord), s.transform[axis][2]))

(***************************************************************************)
(* The fit.  np.polyfit(x, y, 1) scales the columns [x, 1] to unit norm    *)
(* and calls lstsq: the least-squares line when the x differ; when all x   *)
(* equal p # 0 the two columns are parallel and lstsq returns the minimum- *)
(* norm solution (slope mean(y)/(2p), intercept mean(y)/2) with only a     *)
(* RankWarning; when all x are 0 the first column is 0/0 = NaN and the     *)
(* LAPACK build decides (lib): LinAlgError, which is a ValueError in some  *)
(* numpy versions and not in others, or NaN coefficients.                  *)
(***************************************************************************)
LibOutcomes == {"ValueError", "LinAlgError", "nan"}

RECURSIVE Sum(_)
Sum(xs) == IF xs = <<>> THEN Num(0) ELSE NAdd(Head(xs), Sum(Tail(xs)))

Products(xs, ys) == [i \in 1..Len(xs) |-> NMul(xs[i], ys[i])]

AllEqual(xs) == \A i \in 1..Len(xs) : NumEq(xs[i], xs[1])

Fitted(slope, intercept) ==
    [status |-> "ok", slope |-> slope, intercept |-> intercept]
Raised(e) == [status |-> e, slope |-> NaN, intercept |-> NaN]

\* the minimum-norm solution when every x is p # 0
MinNorm(mean, p) == Fitted(NDiv(mean, NMul(Num(2), p)), NDiv(mean, Num(2)))

\* the least-squares line from the sums of n points
Line(n, sx, sy, slope) == Fitted(slope, NDiv(NSub(sy, NMul(slope, sx)), n))

LeastSquares(n, sx, sy, sxx, sxy) ==
    Line(n, sx, sy, NDiv(NSub(NMul(n, sxy), NMul(sx, sy)),
                         NSub(NMul(n, sxx), NMul(sx, sx))))

polyfit(x, y, lib) ==
    IF AllEqual(x)
    THEN IF IsZero(x[1])
         THEN (IF lib = "nan" THEN Fitted(NaN, NaN) ELSE Raised(lib))
         ELSE MinNorm(NDiv(Sum(y), Num(Len(x))), x[1])
    ELSE LeastSquares(Num(Len(x)), Sum(x), Sum(y),
                      Sum(Products(x, x)), Sum(Products(x, y)))

\* the probabilities of values as fractions
Fractions(s, axis, values) ==
    [i \in 1..Len(values) |->
       IF s.probability_is_percent[axis]
       THEN NDiv(values[i], Num(100)) ELSE values[i]]

\* an array of values, and the ValueError raised in place of one
Values(v) == [status |-> "ok", values |-> v]
Invalid == [status |-> "ValueError", values |-> <<>>]

InsideUnit(probs) ==
    \A i \in 1..Len(probs) : ~(NumLe(probs[i], Num(0)) \/ NumLe(Num(1), probs[i]))

convert_probability_values(s, axis, values) ==
    IF InsideUnit(Fractions(s, axis, values))
    THEN Values(Fractions(s, axis, values)) ELSE Invalid

\* the values the line is fitted to, or the ValueError raised instead
transformed_values(s, axis, actual_values) ==
    IF ScaleMode(s, axis) \notin {"linear", "log", "probability"} THEN Invalid
    ELSE IF ScaleMode(s, axis) = "log"
    THEN IF \E i \in 1..Len(actual_values) : NumLe(actual_values[i], Num(0))
         THEN Invalid
         ELSE Values([i \in 1..Len(actual_values) |-> Log10(actual_values[i])])
    ELSE IF ScaleMode(s, axis) = "probability"
    THEN IF convert_probability_values(s, axis, actual_values) = Invalid
         THEN Invalid
         ELSE Values([i \in 1..Len(actual_values) |->
                        probability_forward_transform(
                            convert_probability_values(s, axis, actual_values).values[i])])
    ELSE Values(actual_values)

fit_values(img_coords, target, lib) ==
    IF target = Invalid THEN Raised("ValueError")
    ELSE polyfit(img_coords, target.values, lib)

fit_axis(s, axis, img_coords, actual_values, lib) ==
    fit_values(img_coords, transformed_values(s, axis, actual_values), lib)

\* a fit that asks for one pair only
EnoughPairs_one(pairs) == Len(pairs) >= 1

EnoughPairs(pairs) == Len(pairs) >= 2

\* an assignment of the maps that does not wait for the fits to succeed
install_early(s, fx, fy) ==
    IF fx.status # "ok" \/ fy.status # "ok"
    THEN [s EXCEPT !.transform = [x |-> <<fx.slope, fx.intercept>>,
                                  y |-> <<fy.slope, fy.intercept>>],
                   !.dialog = "fit_error"]
    ELSE [s EXCEPT !.transform = [x |-> <<fx.slope, fx.intercept>>,
                                  y |-> <<fy.slope, fy.intercept>>],
                   !.mode = "DATA",
                   !.finish_btn = "normal",
                   !.dialog = "calibration_done"]

\* the outcome of _solve_transform from the two fits, x first
install(s, fx, fy) ==
    IF fx.status = "ValueError" THEN [s EXCEPT !.dialog = "fit_error"]
    ELSE IF fx.status # "ok" THEN [s EXCEPT !.exc = fx.status]
    ELSE IF fy.status = "ValueError" THEN [s EXCEPT !.dialog = "fit_error"]
    ELSE IF fy.status # "ok" THEN [s EXCEPT !.exc = fy.status]
    ELSE [s EXCEPT !.transform = [x |-> <<fx.slope, fx.intercept>>,
                                  y |-> <<fy.slope, fy.intercept>>],
                   !.mode = "DATA",
                   !.finish_btn = "normal",
                   !.dialog = "calibration_done"]

Column(pairs, side, k) == [i \in 1..Len(pairs) |-> pairs[i][side][k]]

\* the two fits of _solve_transform and what follows them
fit_both(s, lib) ==
    install(s,
            fit_axis(s, "x", Column(s.calib_pairs, "img", 1),
                     Column(s.calib_pairs, "act", 1), lib),
            fit_axis(s, "y", Column(s.calib_pairs, "img", 2),
                     Column(s.calib_pairs, "act", 2), lib))

\* a failed request that also forgets the pairs entered so far
solve_transform_reset(s, lib) ==
    IF ~EnoughPairs(s.calib_pairs)
    THEN [s EXCEPT !.dialog = "need_2_points", !.calib_pairs = <<>>]
    ELSE fit_both(s, lib)

solve_transform(s, lib) ==
    IF ~EnoughPairs(s.calib_pairs) THEN [s EXCEPT !.dialog = "need_2_points"]
    ELSE fit_both(s, lib)

(***************************************************************************)
(* Clicks.  result is what the coordinate dialog returned (<<>> when it    *)
(* was cancelled), continue the answer to "continue calibrating?".         *)
(***************************************************************************)
\* the tail of _ask_true_coords once the pair was appended
ask_continue(s1, continue, lib) == IF continue THEN s1 ELSE solve_transform(s1, lib)

ask_true_coords(s, xi, yi, result, continue, lib) ==
    IF result = <<>> THEN s
    ELSE IF validate_calibration_value(s, "x", result[1]) = "ValueError"
            \/ validate_calibration_value(s, "y", result[2]) = "ValueError"
    THEN [s EXCEPT !.dialog = "domain_error"]
    ELSE ask_continue([s EXCEPT !.calib_pairs =
                          Append(@, [img |-> <<xi, yi>>,
                                     act |-> <<result[1], result[2]>>])],
                      continue, lib)

\* a data branch that also discards the calibration list
append_point_forget(s, x, y) ==
    IF x.kind = "OverflowError" \/ y.kind = "OverflowError"
    THEN [s EXCEPT !.exc = "OverflowError"]
    ELSE [s EXCEPT !.data_points = Append(@, <<x, y>>), !.calib_pairs = <<>>]

\* the data branch of _on_click: a value that raised appends nothing
append_point(s, x, y) ==
    IF x.kind = "OverflowError" \/ y.kind = "OverflowError"
    THEN [s EXCEPT !.exc = "OverflowError"]
    ELSE [s EXCEPT !.data_points = Append(@, <<x, y>>)]

click_at(s, img, result, continue, lib) ==
    IF s.mode = "CALIB"
    THEN ask_true_coords(s, img[1], img[2], result, continue, lib)
    ELSE append_point(s, apply_axis_value(s, "x", img[1]),
                      apply_axis_value(s, "y", img[2]))

on_click(s, ev, result, continue, lib) ==
    click_at(s, screen_to_image(s, ev[1], ev[2]), result, continue, lib)

finish(s) ==
    IF s.data_points = <<>> THEN [s EXCEPT !.dialog = "no_data"]
    ELSE [s EXCEPT !.csv_rows = <<"rows", s.data_points>>,
                   !.dialog = "saved",
                   !.alive = FALSE]

TrueValues == {NaN, Num(0), Rat(1, 100), Rat(1, 10)}
DialogResults == {<<>>} \cup {<<v, v>> : v \in TrueValues}

(***************************************************************************)
(* The state after __init__: the dialogs chose the axis scales and the     *)
(* probability units, and the image was loaded.                            *)
(***************************************************************************)
\* self.transform as __init__ leaves it
InitialTransform == [x |-> <<Num(1), Num(0)>>, y |-> <<Num(1), Num(0)>>]

Init ==
    /\ calib_pairs = <<>>
    /\ data_points = <<>>
    /\ transform = InitialTransform
    /\ offset_x = Num(0)
    /\ offset_y = Num(0)
    /\ scale = Num(1)
    /\ mode = "CALIB"
    /\ pan_start = <<>>
    /\ image_id = "image"
    /\ x_scale_mode \in ScaleModes
    /\ y_scale_mode \in ScaleModes
    /\ probability_is_percent \in
         {f \in [{"x", "y"} -> BOOLEAN] :
            /\ f["x"] => x_scale_mode = "probability"
            /\ f["y"] => y_scale_mode = "probability"}
    /\ finish_btn = "disabled"
    /\ alive = TRUE
    /\ csv_rows = <<"none">>
    /\ dialog = "none"
    /\ exc = "none"
    /\ zooms = 0
    /\ drags = 0

\* the button is pressed when it is up
MiddlePress ==
    /\ alive
    /\ pan_start = <<>>
    /\ \E ev \in PressPoints : Becomes(on_middle_press(Self, ev))
    /\ UNCHANGED <<zooms, drags>>

MiddleDrag ==
    /\ alive
    /\ pan_start # <<>>
    /\ drags < MaxDrags
    /\ \E ev \in PanPoints : Becomes(on_middle_drag(Self, ev))
    /\ drags' = drags + 1
    /\ UNCHANGED zooms

MiddleRelease ==
    /\ alive
    /\ pan_start # <<>>
    /\ Becomes(on_middle_release(Self))
    /\ UNCHANGED <<zooms, drags>>

Zoom ==
    /\ alive
    /\ \E ev \in ZoomCursors, dir \in ZoomDirs : Becomes(on_zoom(Self, ev, dir))
    /\ zooms' = IF zooms > MaxZoomSteps THEN zooms ELSE zooms + 1
    /\ UNCHANGED drags

(***************************************************************************)
(* The viewport alone: pans in the first MaxZoomSteps zoom steps, then any *)
(* number of zoom steps, so that both ends of the scale range are reached. *)
(***************************************************************************)
ViewInit == Init /\ x_scale_mode = "linear" /\ y_scale_mode = "linear"

ViewNext ==
    \/ Zoom
    \/ zooms <= MaxZoomSteps /\ MiddlePress
    \/ zooms <= MaxZoomSteps /\ MiddleDrag
    \/ zooms <= MaxZoomSteps /\ MiddleRelease

ViewSpec == ViewInit /\ [][ViewNext]_vars

(***************************************************************************)
(* The session: clicks, export, and at most MaxViewSteps drags and zooms.   *)
(***************************************************************************)
\* the inputs a click reads: the coordinate dialog's result, the answer to
\* "continue?" when the pair was accepted, and the library's outcome when the
\* fit meets a column of zeros
Results == IF mode = "CALIB" THEN DialogResults ELSE {<<>>}

Answers(result) ==
    IF /\ mode = "CALIB"
       /\ result # <<>>
       /\ validate_calibration_value(Self, "x", result[1]) = "ok"
       /\ validate_calibration_value(Self, "y", result[2]) = "ok"
    THEN BOOLEAN ELSE {TRUE}

ZeroColumn(pairs, img, k) ==
    IsZero(img[k]) /\ \A i \in 1..Len(pairs) : IsZero(pairs[i].img[k])

Libs(ev, continue) ==
    IF /\ ~continue
       /\ \/ ZeroColumn(calib_pairs, screen_to_image(Self, ev[1], ev[2]), 1)
          \/ ZeroColumn(calib_pairs, screen_to_image(Self, ev[1], ev[2]), 2)
    THEN LibOutcomes ELSE {"nan"}

Click ==
    /\ alive
    /\ IF mode = "CALIB" THEN Len(calib_pairs) < MaxCalib
                         ELSE Len(data_points) < MaxData
    /\ \E ev \in ClickPoints, result \in Results :
         \E continue \in Answers(result) :
           \E lib \in Libs(ev, continue) :
             Becomes(on_click(Self, ev, result, continue, lib))
    /\ UNCHANGED <<zooms, drags>>

Finish ==
    /\ alive
    /\ finish_btn = "normal"
    /\ Becomes(finish(Self))
    /\ UNCHANGED <<zooms, drags>>

Next ==
    \/ Click
    \/ Finish
    \/ zooms + drags < MaxViewSteps /\ MiddlePress
    \/ zooms + drags < MaxViewSteps /\ MiddleDrag
    \/ MiddleRelease
    \/ zooms + drags < MaxViewSteps /\ Zoom

Spec == Init /\ [][Next]_vars

(***************************************************************************)
(* Properties of the session (Spec)                                        *)
(***************************************************************************)
\* C1: the session starts in CALIB; the mode becomes DATA only in a step
\* whose fit ran on at least 2 pairs and raised nothing, and a session in
\* DATA is never in CALIB again.
C1_ModeOnlyByFit ==
    /\ mode = "CALIB"
    /\ [][/\ mode = "DATA" => mode' = "DATA"
          /\ mode = "CALIB" /\ mode' = "DATA" =>
               /\ Len(calib_pairs') >= 2
               /\ dialog' = "calibration_done"
               /\ exc' = "none"]_vars

C1_Witness == mode = "DATA" /\ zooms + drags > 0 /\ data_points # <<>>

\* C2: in every state with fewer than 2 pairs a requested fit only shows
\* the "at least 2 points" error (mode, maps and list as they were); after
\* that error the mode is CALIB, the maps are the initial ones, and one more
\* calibration click can complete the calibration.
C2_ShortFitChangesNothing ==
    /\ Len(calib_pairs) < 2 =>
         \A lib \in LibOutcomes :
            solve_transform(Self, lib) = [Self EXCEPT !.dialog = "need_2_points"]
    /\ dialog = "need_2_points" =>
         /\ mode = "CALIB"
         /\ Len(calib_pairs) = 1
         /\ transform = InitialTransform
         /\ \E ev \in ClickPoints, result \in DialogResults, lib \in LibOutcomes :
               LET t == on_click(Self, ev, result, FALSE, lib)
               IN  /\ t.mode = "DATA"
                   /\ Len(t.calib_pairs) = 2
                   /\ t.calib_pairs[2].img # t.calib_pairs[1].img

C2_Witness == dialog = "need_2_points" /\ Len(calib_pairs) = 1 /\ zooms + drags > 0

\* C3: every pair of the calibration list has both true values strictly
\* inside the domain of their axis: positive on a log axis, inside (0, 1) on
\* a fraction probability axis, inside (0, 100) on a percent one.
C3_PairsInsideDomain ==
    LET inside(axis, v) ==
          CASE ScaleMode(Self, axis) = "log" -> NumLt(Num(0), v)
            [] ScaleMode(Self, axis) = "probability" ->
                 /\ NumLt(Num(0), v)
                 /\ NumLt(v, IF probability_is_percent[axis] THEN Num(100) ELSE Num(1))
            [] OTHER -> TRUE
    IN  \A i \in 1..Len(calib_pairs) :
           /\ inside("x", calib_pairs[i].act[1])
           /\ inside("y", calib_pairs[i].act[2])

\* C4: the data set is empty while the mode is CALIB, a click in any state
\* where the mode is DATA appends exactly one point at the end of the data
\* set, and every step keeps the earlier data sequence as a prefix.
C4_ClickAppendsOne ==
    /\ [](mode = "CALIB" => data_points = <<>>)
    /\ [](mode = "DATA" =>
            \A ev \in ClickPoints :
               LET p == on_click(Self, ev, <<>>, TRUE, "nan").data_points
               IN  /\ Len(p) = Len(data_points) + 1
                   /\ SubSeq(p, 1, Len(data_points)) = data_points)
    /\ [][/\ Len(data_points') >= Len(data_points)
          /\ SubSeq(data_points', 1, Len(data_points)) = data_points]_vars

\* C5: after a fit on exactly 2 pairs switched the mode to DATA, applying
\* the maps to the pixel coordinates of each pair returns its true values.
C5_TwoPairFitReproduces ==
    mode = "DATA" /\ Len(calib_pairs) = 2 =>
       \A i \in 1..2, k \in 1..2 :
          LET r == apply_axis_value(Self, IF k = 1 THEN "x" ELSE "y",
                                    calib_pairs[i].img[k])
          IN  r.kind = "float" /\ NumEq(r.v, calib_pairs[i].act[k])

\* C9 as stated: while fewer than 2 pairs are accepted the x and y maps are
\* absent (hold no slope and intercept).
C9_MapsAbsentUntilFit ==
    Len(calib_pairs) < 2 => transform["x"] = <<>> /\ transform["y"] = <<>>

\* C9 amended: while fewer than 2 pairs are accepted the mode is CALIB, and
\* in every state where the mode is CALIB (also after a failed fit) the maps
\* are the identity placeholder of __init__; only the fit that switches the
\* mode to DATA replaces them.
C9_MapsPlaceholderUntilFit ==
    /\ Len(calib_pairs) < 2 => mode = "CALIB"
    /\ mode = "CALIB" => transform = InitialTransform

C9_Witness ==
    Len(calib_pairs) = 2 /\ mode = "CALIB" /\ dialog = "fit_error"

\* C10: no fit on pairs whose pixel coordinates are all identical on an
\* axis switches the mode to DATA, and none leaves an exception uncaught.
C10_DegenerateFitSurfaced ==
    /\ mode = "DATA" =>
         \A k \in 1..2 : ~AllEqual(Column(calib_pairs, "img", k))
    /\ exc # "LinAlgError"

(***************************************************************************)
(* Properties of the viewport (ViewSpec)                                   *)
(***************************************************************************)
\* C6: 0.1 <= scale <= 10 in every reachable state.
C6_ScaleClamped == NumLe(Rat(1, 10), scale) /\ NumLe(scale, Num(10))

C6_Witness == NumEq(scale, Rat(1, 10)) /\ zooms > MaxZoomSteps

\* C7: a zoom step (a step that changes the scale; a step clamped to the
\* scale it had changes nothing) leaves screen_to_image of its cursor where
\* it was, in either direction and also when the new scale is clamped.
C7_ZoomKeepsCursorPoint ==
    [][scale' # scale =>
         \A before \in {Self},
            after \in {[Self EXCEPT !.scale = scale', !.offset_x = offset_x',
                                    !.offset_y = offset_y']} :
            \E ev \in ZoomCursors : \A k \in 1..2 :
               NumEq(screen_to_image(after, ev[1], ev[2])[k],
                     screen_to_image(before, ev[1], ev[2])[k])]_vars

C7_Witness == NumEq(scale, Num(10)) /\ drags > 0 /\ ~IsZero(offset_x)

\* C8: a drag by (dx, dy) adds (dx, dy) to the offset and keeps the scale,
\* so screen_to_image of every screen point moves by (-dx/scale, -dy/scale);
\* offset minus pointer is the same before and after, so the drags of one
\* press add up to the total displacement of the pointer.
C8_PanShifts ==
    [][drags' = drags + 1 =>
         \A before \in {Self},
            after \in {[Self EXCEPT !.scale = scale', !.offset_x = offset_x',
                                    !.offset_y = offset_y',
                                    !.pan_start = pan_start']} :
            \A dx \in {after.pan_start[1] - before.pan_start[1]},
               dy \in {after.pan_start[2] - before.pan_start[2]} :
               /\ after.scale = before.scale
               /\ NumEq(after.offset_x, NAdd(before.offset_x, Num(dx)))
               /\ NumEq(after.offset_y, NAdd(before.offset_y, Num(dy)))
               /\ NumEq(NSub(after.offset_x, Num(after.pan_start[1])),
                        NSub(before.offset_x, Num(before.pan_start[1])))
               /\ NumEq(NSub(after.offset_y, Num(after.pan_start[2])),
                        NSub(before.offset_y, Num(before.pan_start[2])))
               /\ \A sp \in ClickPoints \cup ZoomCursors :
                    /\ NumEq(screen_to_image(after, sp[1], sp[2])[1],
                             NSub(screen_to_image(before, sp[1], sp[2])[1],
                                  NDiv(Num(dx), before.scale)))
                    /\ NumEq(screen_to_image(after, sp[1], sp[2])[2],
                             NSub(screen_to_image(before, sp[1], sp[2])[2],
                                  NDiv(Num(dy), before.scale)))]_vars

C8_Witness ==
    drags >= 2 /\ pan_start # <<>> /\ ~NumEq(scale, Num(1)) /\ ~IsZero(offset_y)

(***************************************************************************)
(* Frame conditions of the session                                         *)
(***************************************************************************)
\* C11: once the mode is DATA the affine maps, the calibration list, the axis
\* scale kinds and the percent flags never change again; a data click (one
\* that appends and one that raises) leaves them and the viewport as they
\* are and changes at most data_points; a middle-button or wheel event
\* changes nothing but offset_x, offset_y, scale and pan_start.
C11_CalibrationFrozen ==
    /\ [](mode = "DATA" =>
            \A ev \in ClickPoints : \A before \in {Self} :
               \A after \in {on_click(before, ev, <<>>, TRUE, "nan")} :
                  after = [before EXCEPT !.data_points = after.data_points,
                                         !.exc = after.exc])
    /\ [][/\ mode = "DATA" =>
               /\ mode' = "DATA"
               /\ UNCHANGED <<transform, calib_pairs, x_scale_mode,
                              y_scale_mode, probability_is_percent>>
          /\ mode = "DATA" /\ (data_points' # data_points
                                \/ exc' = "OverflowError") =>
               UNCHANGED <<offset_x, offset_y, scale, pan_start, image_id>>
          /\ (zooms' # zooms \/ drags' # drags \/ pan_start' # pan_start) =>
               UNCHANGED <<calib_pairs, data_points, transform, mode,
                           x_scale_mode, y_scale_mode, probability_is_percent,
                           image_id, finish_btn, alive, csv_rows>>]_vars

C11_Witness ==
    /\ mode = "DATA"
    /\ Len(data_points) = MaxData
    /\ zooms > 0
    /\ ~NumEq(scale, Num(1))

=============================================================================
